---------------------------- MODULE Spec2Model ----------------------------
(***************************************************************************)
(* A model of the IMST WiMOD HCI serdev driver (src/wimod.c): the SLIP     *)
(* byte-stuffing codec, the frame check sequence, the incremental receive  *)
(* assembler, the dispatcher list and the synchronous request calls.       *)
(*                                                                         *)
(* Two specifications share the variables:                                 *)
(*   SpecCodec  the codec as functions: a frame is encoded by              *)
(*              wimod_hci_send and fed to wimod_receive_buf in chunks;     *)
(*   Spec       request calls running concurrently with the receive path,  *)
(*              at the granularity of the accesses to shared memory.       *)
(***************************************************************************)
EXTENDS Integers, Sequences, FiniteSets, TLC

(***************************************************************************)
(* Program constants.                                                      *)
(***************************************************************************)
WIMOD_HCI_PAYLOAD_MAX == 300
WIMOD_HCI_PACKET_MAX == 1 + ((2 + WIMOD_HCI_PAYLOAD_MAX + 2) * 2) + 1

SLIP_END == 192
SLIP_ESC == 219
SLIP_ESC_END == 220
SLIP_ESC_ESC == 221

DEVMGMT_ID == 1
DEVMGMT_MSG_PING_REQ == 1
DEVMGMT_MSG_PING_RSP == 2
DEVMGMT_MSG_GET_DEVICE_INFO_REQ == 3
DEVMGMT_MSG_GET_DEVICE_INFO_RSP == 4
DEVMGMT_STATUS_OK == 0

ETIMEDOUT == 110
EINVAL == 22

(***************************************************************************)
(* Bounds of the model.                                                    *)
(***************************************************************************)
\* longest payload of a frame handed to wimod_hci_send in SpecCodec
MaxPayload == 1
\* chunks the transport delivers to the receive path in Spec
MaxChunks == 1

Min(a, b) == IF a < b THEN a ELSE b

(***************************************************************************)
(* 16-bit arithmetic and the frame check sequence (CRC-CCITT, reflected    *)
(* polynomial 0x8408, as lib/crc-ccitt.c computes it).                     *)
(***************************************************************************)
RECURSIVE Xor(_, _)
Xor(a, b) ==
    IF a = 0 THEN b
    ELSE IF b = 0 THEN a
    ELSE (((a % 2) + (b % 2)) % 2) + (2 * Xor(a \div 2, b \div 2))

Not16(a) == 65535 - (a % 65536)

RECURSIVE CrcShift(_, _)
CrcShift(crc, n) ==
    IF n = 0 \/ crc < 0 THEN crc
    ELSE CrcShift(IF crc % 2 = 1 THEN Xor(crc \div 2, 33800) ELSE crc \div 2,
                  n - 1)

crc_ccitt_byte(crc, c) == CrcShift(Xor(crc, c), 8)

RECURSIVE crc_ccitt(_, _)
crc_ccitt(crc, buf) ==
    IF buf = << >> \/ crc < 0 THEN crc
    ELSE crc_ccitt(crc_ccitt_byte(crc, Head(buf)), Tail(buf))

\* the residual a correctly received frame reduces to
FCS_RESIDUAL == 3911

(***************************************************************************)
(* Transmit side: slip_send_end, slip_send_data, wimod_hci_send.  Each is  *)
(* the sequence of serdev_device_write calls it makes, a write being the   *)
(* byte sequence handed to the transport.                                  *)
(***************************************************************************)
slip_send_end == << <<SLIP_END>> >>

\* slip_send_data with the two escape codes exchanged
EscCodeSwapped(b) == IF b = SLIP_END THEN SLIP_ESC_ESC ELSE SLIP_ESC_END

\* the second byte of the escape pair slip_send_data writes for buf[i]
EscCode(b) == IF b = SLIP_END THEN SLIP_ESC_END ELSE SLIP_ESC_ESC

RECURSIVE SlipWrites(_, _, _)
SlipWrites(buf, i, last_idx) ==
    IF i > Len(buf)
    THEN << SubSeq(buf, last_idx + 1, Len(buf)) >>
    ELSE IF buf[i] # SLIP_END /\ buf[i] # SLIP_ESC
    THEN SlipWrites(buf, i + 1, last_idx)
    ELSE << SubSeq(buf, last_idx + 1, i - 1), <<SLIP_ESC, EscCode(buf[i])>> >>
         \o SlipWrites(buf, i + 1, i)

slip_send_data(buf) == SlipWrites(buf, 1, 0)

\* the two checksum bytes wimod_hci_send appends, least significant first
Fcs(dst_id, msg_id, payload) ==
    LET crc == Not16(crc_ccitt(crc_ccitt_byte(crc_ccitt_byte(65535, dst_id), msg_id),
                               payload))
    IN  << crc % 256, crc \div 256 >>

\* the frame before escaping: header, payload, checksum
RawFrame(dst_id, msg_id, payload) ==
    <<dst_id, msg_id>> \o payload \o Fcs(dst_id, msg_id, payload)

wimod_hci_send(dst_id, msg_id, payload) ==
    slip_send_end
    \o slip_send_data(<<dst_id>>)
    \o slip_send_data(<<msg_id>>)
    \o (IF Len(payload) > 0 THEN slip_send_data(payload) ELSE << >>)
    \o slip_send_data(Fcs(dst_id, msg_id, payload))
    \o slip_send_end

RECURSIVE Flatten(_)
Flatten(ws) == IF ws = << >> THEN << >> ELSE Head(ws) \o Flatten(Tail(ws))

(***************************************************************************)
(* Receive side: the loop of wimod_receive_buf over a receive state        *)
(*   [buf, len, esc]  rx_buf (its first rx_len bytes), rx_len, rx_esc      *)
(*   [data, ret]      the input not yet consumed by this call, and the     *)
(*                    count of bytes consumed so far (the local len)       *)
(*   [stop]           "run", "exit" (the loop ended) or "packet" (the loop *)
(*                    stands at the call of wimod_process_packet)          *)
(***************************************************************************)
RxState(buf, len, esc, data) ==
    [buf |-> buf, len |-> len, esc |-> esc, data |-> data, ret |-> 0,
     stop |-> "run"]

\* an unknown escaped byte kept as it is
UnescCodeKeep(b) ==
    IF b = SLIP_ESC_END THEN SLIP_END
    ELSE IF b = SLIP_ESC_ESC THEN SLIP_ESC
    ELSE b

\* the byte an escape pair decodes to; 0 - 1 for an unknown escape sequence
UnescCode(b) ==
    IF b = SLIP_ESC_END THEN SLIP_END
    ELSE IF b = SLIP_ESC_ESC THEN SLIP_ESC
    ELSE 0 - 1

\* the literal bytes before the first END or ESC among the first lim bytes of
\* data, or lim when there is none (the scan by i++ of the loop)
LiteralRun(data, lim) ==
    LET special == {j \in 1..lim : data[j] = SLIP_END \/ data[j] = SLIP_ESC}
    IN  IF special = {} THEN lim
        ELSE (CHOOSE j \in special : \A k \in special : j <= k) - 1

\* the loop going on to the next bytes without counting those it has used
AdvanceUncounted(st, n) ==
    [st EXCEPT !.data = SubSeq(st.data, n + 1, Len(st.data))]

Advance(st, n) ==
    [st EXCEPT !.data = SubSeq(st.data, n + 1, Len(st.data)), !.ret = st.ret + n]

\* the room left in the buffer taken to be its whole size
RxRoomWhole(len) == WIMOD_HCI_PACKET_MAX

\* a buffer taken to be one byte larger than rx_buf is
RxRoomOneMore(len) == WIMOD_HCI_PACKET_MAX + 1 - len

\* sizeof(wmdev->rx_buf) - wmdev->rx_len
RxRoom(len) == WIMOD_HCI_PACKET_MAX - len

RECURSIVE RxLoop(_)
RxLoop(st) ==
    LET lim == Min(Len(st.data), RxRoom(st.len))
    IN
    IF st.stop # "run" THEN st
    ELSE IF ~(0 < lim) THEN [st EXCEPT !.stop = "exit"]
    ELSE IF st.esc
    THEN LET b == UnescCode(st.data[1])
             s1 == IF b >= 0
                   THEN [st EXCEPT !.esc = FALSE, !.buf = Append(st.buf, b),
                                   !.len = st.len + 1]
                   ELSE [st EXCEPT !.esc = FALSE]
         IN  RxLoop(Advance(s1, 1))
    ELSE LET i == LiteralRun(st.data, lim)
         IN  IF i = lim
             THEN [st EXCEPT !.stop = "exit"]
             ELSE LET s1 == [st EXCEPT !.buf = st.buf \o SubSeq(st.data, 1, i),
                                       !.len = st.len + i]
                      c  == st.data[i + 1]
                  IN  IF c = SLIP_END /\ s1.len > 0
                      THEN [Advance(s1, i + 1) EXCEPT !.stop = "packet"]
                      ELSE IF c = SLIP_ESC
                      THEN RxLoop(Advance([s1 EXCEPT !.esc = TRUE], i + 1))
                      ELSE RxLoop(Advance(s1, i + 1))

\* the statement after the call of wimod_process_packet: rx_len = 0
RxAfterPacket(st) == [st EXCEPT !.buf = << >>, !.len = 0, !.stop = "run"]

\* wimod_process_packet with the length test only
FrameValidLenOnly(data, len) == ~(len < 4)

\* wimod_process_packet's two discards: the frame reaches the dispatcher list
FrameValid(data, len) ==
    /\ ~(len < 4)
    /\ Not16(crc_ccitt(65535, SubSeq(data, 1, len))) = FCS_RESIDUAL

\* a whole call of wimod_receive_buf with no dispatcher registered: the final
\* state, and the frames handed to wimod_process_packet, in order
RECURSIVE RxAll(_, _)
RxAll(st, frames) ==
    LET r == RxLoop(st)
    IN  IF r.stop = "packet"
        THEN RxAll(RxAfterPacket(r), Append(frames, SubSeq(r.buf, 1, r.len)))
        ELSE [st |-> r, frames |-> frames]

\* wimod_receive_buf reporting every byte of its input as consumed
RxReturnCount(st) == Len(st.data) + st.ret

\* the value wimod_receive_buf returns: the count of bytes consumed (len)
RxReturn(st) == st.ret

wimod_receive_buf(buf, len, esc, data) ==
    LET r == RxAll(RxState(buf, len, esc, data), << >>)
    IN  [buf |-> r.st.buf, len |-> r.st.len, esc |-> r.st.esc,
         frames |-> r.frames, ret |-> RxReturn(r.st)]

(***************************************************************************)
(* State.                                                                  *)
(***************************************************************************)
VARIABLES
    rx_buf,     \* wimod_device.rx_buf: the bytes accumulated (rx_len of them)
    rx_len,     \* wimod_device.rx_len
    rx_esc,     \* wimod_device.rx_esc
    \* SpecCodec: one frame through wimod_hci_send and wimod_receive_buf
    cphase,     \* "off", "send", "feed"
    tx,         \* the arguments of wimod_hci_send: [dst_id, msg_id, payload]
    wire,       \* the bytes wimod_hci_send wrote to the transport
    pos,        \* how many bytes of wire the transport has delivered
    pend,       \* delivered bytes the last call did not report as consumed
    keep,       \* whether the transport passes pend again (as serdev does)
    ncalls,     \* calls of wimod_receive_buf so far
    emitted,    \* the frames handed to wimod_process_packet, in order
    last_in,    \* SpecRx: the input (data, count) of the last call
    last_ret    \* SpecRx: the value the last call returned

rxvars == <<rx_buf, rx_len, rx_esc>>
codecvars == <<cphase, tx, wire, pos, pend, keep, ncalls, emitted, last_in, last_ret>>

VARIABLES
    \* Spec: the dispatcher list, the request calls and the receive path
    nxt,        \* list_head.next of the list head and of each packet.disp.list
    prv,        \* list_head.prev of the same
    pk,         \* each caller's struct wimod_hci_packet_completion packet
    heap,       \* kzalloc'ed payload buffers not yet kfree'd
    pc,         \* where each caller stands in its request call
    loc,        \* each call's locals: cmd, ret, timeout, prev/next of a list op
    rxpc,       \* where the receive path stands
    rx_data,    \* input of the running wimod_receive_buf not yet looked at
    e,          \* the cursor of list_for_each_entry in wimod_process_packet
    nchunks,    \* chunks delivered so far
    hist        \* history: what the claims speak about (see HistInit)

listvars == <<nxt, prv>>
callvars == <<pc, loc>>
pathvars == <<rxpc, rx_data, e, nchunks>>
concvars == <<listvars, pk, heap, callvars, pathvars, hist>>
vars == <<rxvars, codecvars, concvars>>

(***************************************************************************)
(* The dispatcher list and the request calls: memory.                      *)
(***************************************************************************)
Callers == {"c1", "c2"}
HEAD == "head"                  \* &wmdev->packet_dispatchers
NULLP == "null"
LIST_POISON2 == "poison"
Nodes == {HEAD} \cup Callers

Cmds == {"ping", "info"}        \* wimod_hci_ping, wimod_hci_get_device_info
ReqMsg(cmd) ==
    IF cmd = "ping" THEN DEVMGMT_MSG_PING_REQ ELSE DEVMGMT_MSG_GET_DEVICE_INFO_REQ
RspMsg(cmd) ==
    IF cmd = "ping" THEN DEVMGMT_MSG_PING_RSP ELSE DEVMGMT_MSG_GET_DEVICE_INFO_RSP

\* a payload pointer: NULL (ok = FALSE) or a buffer (ZERO_SIZE_PTR when empty)
NullBuf == [ok |-> FALSE, data |-> << >>]
Buf(data) == [ok |-> TRUE, data |-> data]

\* struct wimod_hci_packet_completion packet = {0}
ZeroPacket ==
    [dst_id |-> 0, msg_id |-> 0, done |-> 0, payload |-> NullBuf, payload_len |-> 0]

\* the fields a request call sets before registering, init_completion included
NewPacket(cmd) ==
    [ZeroPacket EXCEPT !.dst_id = DEVMGMT_ID, !.msg_id = RspMsg(cmd), !.done = 0]

ZeroLoc == [cmd |-> "ping", ret |-> 0, timeout |-> 1, prev |-> NULLP, next |-> NULLP]

\* the writes a request call hands to serdev_device_write, in order
PingWrites == wimod_hci_send(DEVMGMT_ID, ReqMsg("ping"), << >>)
InfoWrites == wimod_hci_send(DEVMGMT_ID, ReqMsg("info"), << >>)
Writes(cmd) == IF cmd = "ping" THEN PingWrites ELSE InfoWrites

\* the most writes a request makes
MaxWrites == Len(PingWrites)

\* the calls each caller context issues
CmdsOf(c) == IF c = "c1" THEN {"ping"} ELSE Cmds

\* what serdev_device_write returns when it fails
WriteErrors == {0 - ETIMEDOUT, 0 - EINVAL}

\* the chunks the transport delivers in Spec: encoded frames, valid or not
Encoded(frame) == <<SLIP_END>> \o Flatten(slip_send_data(frame)) \o <<SLIP_END>>
PingRsp(payload) == RawFrame(DEVMGMT_ID, DEVMGMT_MSG_PING_RSP, payload)
InfoRsp(payload) == RawFrame(DEVMGMT_ID, DEVMGMT_MSG_GET_DEVICE_INFO_RSP, payload)
Corrupted(frame) == [frame EXCEPT ![3] = (frame[3] + 1) % 256]
RxChunks ==
    { \* the same valid ping response twice
      Encoded(PingRsp(<<DEVMGMT_STATUS_OK>>)) \o Encoded(PingRsp(<<DEVMGMT_STATUS_OK>>)),
      \* a frame of 2 bytes, a ping response with a wrong checksum, then a
      \* valid device-info response
      Encoded(<<DEVMGMT_ID, DEVMGMT_MSG_PING_RSP>>)
        \o Encoded(Corrupted(PingRsp(<<DEVMGMT_STATUS_OK>>)))
        \o Encoded(InfoRsp(<<DEVMGMT_STATUS_OK, 1, 2, 3, 4, 5, 6, 7, 8, 9>>)) }

HistInit ==
    [how     |-> [c \in Callers |-> "none"], \* how c's call ended: "write",
                                             \* "timeout" or "completed"
     result  |-> [c \in Callers |-> 0],     \* what c's call returned
     nwr     |-> [c \in Callers |-> 0],     \* handler writes of c's payload slot
     ncomp   |-> [c \in Callers |-> 0],     \* complete() calls on c's waiter
     werr    |-> [c \in Callers |-> 0],     \* the error of the call's failed write
     late    |-> [c \in Callers |-> FALSE], \* a write was made after a failed one
     waited  |-> [c \in Callers |-> FALSE], \* the call entered its wait
     regseq  |-> << >>,   \* the callers registered, in registration order
     invoked |-> << >>,   \* entries whose handler ran for the current frame
     visited |-> << >>,   \* entries the current scan has examined (see Seen)
     stable  |-> {},      \* entries registered for the whole current scan
     disc    |-> FALSE,   \* wimod_process_packet has discarded a frame
     valid   |-> FALSE]   \* a frame has reached the dispatcher list

ConcOff ==
    /\ nxt = [n \in Nodes |-> IF n = HEAD THEN HEAD ELSE NULLP]
    /\ prv = [n \in Nodes |-> IF n = HEAD THEN HEAD ELSE NULLP]
    /\ pk = [c \in Callers |-> ZeroPacket]
    /\ heap = 0
    /\ pc = [c \in Callers |-> "idle"]
    /\ loc = [c \in Callers |-> ZeroLoc]
    /\ rxpc = "idle"
    /\ rx_data = << >>
    /\ e = HEAD
    /\ nchunks = 0
    /\ hist = HistInit

CodecOff ==
    /\ cphase = "off"
    /\ tx = [dst_id |-> 0, msg_id |-> 0, payload |-> << >>]
    /\ keep = FALSE
    /\ wire = << >>
    /\ pos = 0
    /\ pend = << >>
    /\ ncalls = 0
    /\ emitted = << >>
    /\ last_in = << >>
    /\ last_ret = 0

(***************************************************************************)
(* SpecCodec.                                                              *)
(***************************************************************************)
CodecBytes == {DEVMGMT_ID, SLIP_END, SLIP_ESC, SLIP_ESC_END, SLIP_ESC_ESC}

RECURSIVE SeqsUpTo(_, _)
SeqsUpTo(S, n) ==
    IF n = 0 THEN {<< >>}
    ELSE LET shorter == SeqsUpTo(S, n - 1)
         IN  shorter \cup {Append(q, b) : q \in {x \in shorter : Len(x) = n - 1},
                                             b \in S}

RxInit ==
    /\ rx_buf = << >>
    /\ rx_len = 0
    /\ rx_esc = FALSE

CodecInit ==
    /\ RxInit
    /\ ConcOff
    /\ cphase = "send"
    /\ tx \in [dst_id : CodecBytes, msg_id : CodecBytes,
               payload : SeqsUpTo(CodecBytes, MaxPayload)]
    /\ keep \in BOOLEAN
    /\ wire = << >>
    /\ pos = 0
    /\ pend = << >>
    /\ ncalls = 0
    /\ emitted = << >>
    /\ last_in = << >>
    /\ last_ret = 0

\* wimod_hci_send with every write succeeding
CSend ==
    /\ cphase = "send"
    /\ wire' = Flatten(wimod_hci_send(tx.dst_id, tx.msg_id, tx.payload))
    /\ cphase' = "feed"
    /\ UNCHANGED <<rxvars, tx, pos, pend, keep, ncalls, emitted, last_in, last_ret, concvars>>

\* the transport delivers the next k bytes: one call of wimod_receive_buf
CFeed(k) ==
    /\ cphase = "feed"
    /\ pos + k <= Len(wire)
    /\ LET input == pend \o SubSeq(wire, pos + 1, pos + k)
           r == wimod_receive_buf(rx_buf, rx_len, rx_esc, input)
       IN  /\ rx_buf' = r.buf
           /\ rx_len' = r.len
           /\ rx_esc' = r.esc
           /\ emitted' = emitted \o r.frames
           /\ pend' = IF keep THEN SubSeq(input, r.ret + 1, Len(input)) ELSE << >>
           /\ last_in' = input
           /\ last_ret' = r.ret
    /\ pos' = pos + k
    /\ ncalls' = ncalls + 1
    /\ UNCHANGED <<cphase, tx, wire, keep, concvars>>

CodecNext ==
    \/ CSend
    \/ \E k \in 1..(Len(wire) - pos) : CFeed(k)

SpecCodec == CodecInit /\ [][CodecNext]_vars

CodecDone == cphase = "feed" /\ pos = Len(wire)

\* the frame wimod_hci_send encoded
TxRaw == RawFrame(tx.dst_id, tx.msg_id, tx.payload)

\* what one call of wimod_receive_buf on the whole stream hands over
WholeFrames == wimod_receive_buf(<< >>, 0, FALSE, wire).frames

HasSpecial(q) == \E j \in 1..Len(q) : q[j] = SLIP_END \/ q[j] = SLIP_ESC

C6_RoundTrip ==
    (CodecDone /\ ncalls = 1) =>
        /\ emitted = <<TxRaw>>
        /\ rx_len = 0 /\ ~rx_esc

\* a frame holding both END and ESC went through in one call
C6_Witness ==
    /\ CodecDone /\ ncalls = 1
    /\ \E j \in 1..Len(TxRaw) : TxRaw[j] = SLIP_END
    /\ \E j \in 1..Len(TxRaw) : TxRaw[j] = SLIP_ESC
    /\ Len(wire) > Len(TxRaw) + 2
    /\ emitted = <<TxRaw>>

(***************************************************************************)
(* Spec: the request calls.                                                *)
(***************************************************************************)
Init ==
    /\ RxInit
    /\ CodecOff
    /\ ConcOff

Remove(q, c) == SelectSeq(q, LAMBDA x : x # c)

\* a request call begins: packet = {0}, its key and handler, init_completion
Start(c, cmd) ==
    /\ pc[c] = "idle"
    /\ pk' = [pk EXCEPT ![c] = NewPacket(cmd)]
    /\ nxt' = [nxt EXCEPT ![c] = NULLP]
    /\ prv' = [prv EXCEPT ![c] = NULLP]
    /\ loc' = [loc EXCEPT ![c] = [ZeroLoc EXCEPT !.cmd = cmd]]
    /\ pc' = [pc EXCEPT ![c] = "add_read"]
    /\ UNCHANGED <<rxvars, codecvars, heap, pathvars, hist>>

\* list_add_tail_rcu -> __list_add_rcu(new, head->prev, head):
\*   prev = head->prev; new->next = head; new->prev = prev
AddRead(c) ==
    /\ pc[c] = "add_read"
    /\ loc' = [loc EXCEPT ![c].prev = prv[HEAD]]
    /\ nxt' = [nxt EXCEPT ![c] = HEAD]
    /\ prv' = [prv EXCEPT ![c] = prv[HEAD]]
    /\ pc' = [pc EXCEPT ![c] = "add_link"]
    /\ UNCHANGED <<rxvars, codecvars, pk, heap, pathvars, hist>>

\*   rcu_assign_pointer(list_next_rcu(prev), new)
AddLink(c) ==
    /\ pc[c] = "add_link"
    /\ nxt' = [nxt EXCEPT ![loc[c].prev] = c]
    /\ pc' = [pc EXCEPT ![c] = "add_tail"]
    /\ UNCHANGED <<rxvars, codecvars, prv, pk, heap, loc, pathvars, hist>>

\*   next->prev = new; wimod_hci_add_dispatcher returns
AddTail(c) ==
    /\ pc[c] = "add_tail"
    /\ prv' = [prv EXCEPT ![HEAD] = c]
    /\ loc' = [loc EXCEPT ![c].prev = NULLP]
    /\ pc' = [pc EXCEPT ![c] = "send"]
    /\ hist' = [hist EXCEPT !.regseq = Append(hist.regseq, c)]
    /\ UNCHANGED <<rxvars, codecvars, nxt, pk, heap, pathvars>>

\* where a call goes once wimod_hci_send has returned 0
AfterSend == "wait"

\* a call that goes on to wait for the response after a failed write
AfterFailWait == "wait"

\* where a call goes when a write of wimod_hci_send has failed: to the
\* wimod_hci_remove_dispatcher of the if (ret) branch
AfterFail == "del_read"

\* how many writes wimod_hci_send makes when its write number k + 1 fails
WritesMade(cmd, k) == k + 1

\* wimod_hci_send: the first k writes succeed; then either the frame is
\* complete (r = 0) or the next serdev_device_write returns the error r and
\* wimod_hci_send returns it at once
Send(c, k, r) ==
    /\ pc[c] = "send"
    /\ k \in 0..Len(Writes(loc[c].cmd))
    /\ (r = 0) <=> (k = Len(Writes(loc[c].cmd)))
    /\ IF r = 0
       THEN /\ pc' = [pc EXCEPT ![c] = AfterSend]
            /\ UNCHANGED <<loc, hist>>
       ELSE /\ loc' = [loc EXCEPT ![c].ret = r]
            /\ hist' = [hist EXCEPT !.werr[c] = r,
                                    !.late[c] = WritesMade(loc[c].cmd, k) # k + 1]
            /\ pc' = [pc EXCEPT ![c] = AfterFail]
    /\ UNCHANGED <<rxvars, codecvars, listvars, pk, heap, pathvars>>

\* what a waiter that consumes the completion leaves in done
DoneTaken(done) == done - 1

\* wait_for_completion_timeout returns with the completion signalled
WaitDone(c) ==
    /\ pc[c] = "wait"
    /\ pk[c].done > 0
    /\ pk' = [pk EXCEPT ![c].done = DoneTaken(pk[c].done)]
    /\ loc' = [loc EXCEPT ![c].timeout = 1]
    /\ pc' = [pc EXCEPT ![c] = "del_read"]
    /\ hist' = [hist EXCEPT !.waited[c] = TRUE]
    /\ UNCHANGED <<rxvars, codecvars, listvars, heap, pathvars>>

\* a wait that may run into its deadline whatever done is
MayTimeOutAlways(done) == TRUE

\* wait_for_completion_timeout looks at done first and sleeps, and so can run
\* into its deadline, only when done is 0
MayTimeOut(done) == done = 0

\* wait_for_completion_timeout returns 0: the deadline passed, done is 0
WaitTimeout(c) ==
    /\ pc[c] = "wait"
    /\ MayTimeOut(pk[c].done)
    /\ loc' = [loc EXCEPT ![c].timeout = 0]
    /\ pc' = [pc EXCEPT ![c] = "del_read"]
    /\ hist' = [hist EXCEPT !.waited[c] = TRUE]
    /\ UNCHANGED <<rxvars, codecvars, listvars, pk, heap, pathvars>>

\* list_del_rcu -> __list_del(entry->prev, entry->next): the two reads
DelRead(c) ==
    /\ pc[c] = "del_read"
    /\ loc' = [loc EXCEPT ![c].prev = prv[c], ![c].next = nxt[c]]
    /\ pc' = [pc EXCEPT ![c] = "del_prev"]
    /\ hist' = [hist EXCEPT !.regseq = Remove(hist.regseq, c),
                            !.stable = hist.stable \ {c}]
    /\ UNCHANGED <<rxvars, codecvars, listvars, pk, heap, pathvars>>

\*   next->prev = prev
DelPrev(c) ==
    /\ pc[c] = "del_prev"
    /\ prv' = [prv EXCEPT ![loc[c].next] = loc[c].prev]
    /\ pc' = [pc EXCEPT ![c] = "del_next"]
    /\ UNCHANGED <<rxvars, codecvars, nxt, pk, heap, loc, pathvars, hist>>

\*   WRITE_ONCE(prev->next, next); entry->prev = LIST_POISON2
DelNext(c) ==
    /\ pc[c] = "del_next"
    /\ nxt' = [nxt EXCEPT ![loc[c].prev] = loc[c].next]
    /\ prv' = [prv EXCEPT ![c] = LIST_POISON2]
    /\ loc' = [loc EXCEPT ![c].prev = NULLP, ![c].next = NULLP]
    /\ pc' = [pc EXCEPT ![c] = "ret"]
    /\ UNCHANGED <<rxvars, codecvars, pk, heap, pathvars, hist>>

wimod_hci_devmgmt_status(status) ==
    IF status = DEVMGMT_STATUS_OK THEN 0 ELSE 0 - EINVAL

\* kfree(p): one buffer less, unless p is NULL or ZERO_SIZE_PTR
Kfree(p) == IF p.ok /\ Len(p.data) > 0 THEN heap - 1 ELSE heap

\* the call reads packet.payload[0] where there is no byte to read
BadDeref(c) ==
    /\ loc[c].ret = 0
    /\ loc[c].timeout # 0
    /\ ~(pk[c].payload_len < 1)
    /\ (~pk[c].payload.ok \/ Len(pk[c].payload.data) < 1)

\* the value a call returns, from the statements after the unregister
Outcome(c) ==
    IF loc[c].ret # 0 THEN loc[c].ret
    ELSE IF loc[c].timeout = 0 THEN 0 - ETIMEDOUT
    ELSE IF pk[c].payload_len < 1 THEN 0 - EINVAL
    ELSE LET st == wimod_hci_devmgmt_status(pk[c].payload.data[1])
         IN  IF loc[c].cmd = "ping" THEN st
             ELSE IF st # 0 THEN st
             ELSE IF pk[c].payload_len < 10 THEN 0 - EINVAL
             ELSE 0

\* the exit the call takes
How(c) ==
    IF loc[c].ret # 0 THEN "write"
    ELSE IF loc[c].timeout = 0 THEN "timeout"
    ELSE "completed"

\* whether the call kfree's packet.payload on the way out
Frees(c) == loc[c].ret = 0 /\ loc[c].timeout # 0

\* the statements after wimod_hci_remove_dispatcher, to the return
Return(c) ==
    /\ pc[c] = "ret"
    /\ IF BadDeref(c)
       THEN /\ pc' = [pc EXCEPT ![c] = "oops"]
            /\ UNCHANGED <<pk, loc, heap, hist>>
       ELSE /\ pc' = [pc EXCEPT ![c] = "returned"]
            /\ heap' = IF Frees(c) THEN Kfree(pk[c].payload) ELSE heap
            /\ pk' = [pk EXCEPT ![c] = ZeroPacket]
            /\ loc' = [loc EXCEPT ![c] = ZeroLoc]
            /\ hist' = [hist EXCEPT !.result[c] = Outcome(c), !.how[c] = How(c),
                                    !.nwr[c] = 0, !.ncomp[c] = 0, !.werr[c] = 0,
                                    !.late[c] = FALSE, !.waited[c] = FALSE]
    /\ UNCHANGED <<rxvars, codecvars, listvars, pathvars>>

(***************************************************************************)
(* Spec: the receive path.                                                 *)
(***************************************************************************)
\* the loop of wimod_receive_buf from st, up to its end or to the next call
\* of wimod_process_packet
RxRun(st) ==
    LET r == RxLoop(st)
    IN  /\ rx_buf' = r.buf
        /\ rx_len' = r.len
        /\ rx_esc' = r.esc
        /\ rx_data' = r.data
        /\ rxpc' = IF r.stop = "packet" THEN "process" ELSE "idle"

\* the transport calls wimod_receive_buf with a chunk
RxChunk(data) ==
    /\ rxpc = "idle"
    /\ nchunks < MaxChunks
    /\ nchunks' = nchunks + 1
    /\ RxRun(RxState(rx_buf, rx_len, rx_esc, data))
    /\ UNCHANGED <<codecvars, listvars, pk, heap, callvars, e, hist>>

\* wimod_process_packet up to the first read of the list: either of the two
\* discards (the function returns, rx_len = 0 and the loop goes on), or
\* e = list_first_entry(head)
RxProcess ==
    /\ rxpc = "process"
    /\ IF FrameValid(rx_buf, rx_len)
       THEN /\ e' = nxt[HEAD]
            /\ rxpc' = "scan"
            /\ hist' = [hist EXCEPT !.valid = TRUE,
                                    !.stable = {c \in Callers :
                                        \E j \in 1..Len(hist.regseq) : hist.regseq[j] = c}]
            /\ UNCHANGED <<rxvars, rx_data>>
       ELSE /\ RxRun(RxState(<< >>, 0, rx_esc, rx_data))
            /\ hist' = [hist EXCEPT !.disc = TRUE]
            /\ UNCHANGED e
    /\ UNCHANGED <<codecvars, listvars, pk, heap, callvars, nchunks>>

\* what a read of a field of waiter c may return: the field of a running
\* call's packet, anything once the call has returned (its stack frame is gone)
Live(c) == pc[c] \notin {"idle", "returned"}

\* a write by the receive path to waiter c: into the packet of a running call,
\* or into a released stack frame, whose content the model does not keep
Store(c, val) == IF Live(c) THEN [pk EXCEPT ![c] = val] ELSE pk

\* the entries a scan has examined, in order; a scan that examines more than
\* MaxSeen entries has gone round a cycle, and the rest is not recorded
MaxSeen == Cardinality(Callers) + 1
Seen(q, c) == IF Len(q) < MaxSeen THEN Append(q, c) ELSE q

KeyMatches(c) == pk[c].dst_id = rx_buf[1] /\ pk[c].msg_id = rx_buf[2]

\* where the scan goes after a handler has returned: break
AfterHandler == "after"

\* list_for_each_entry: the loop test, then e->dst_id == data[0] &&
\* e->msg_id == data[1]; on a match the dispatchee is called
ScanCheck(match) ==
    /\ rxpc = "scan"
    /\ IF e = HEAD
       THEN /\ rxpc' = "after"
            /\ UNCHANGED hist
       ELSE IF e \notin Callers
       THEN /\ rxpc' = "oops"
            /\ UNCHANGED hist
       ELSE /\ Live(e) => (match <=> KeyMatches(e))
            /\ rxpc' = IF match THEN "h_done" ELSE "scan_next"
            /\ hist' = [hist EXCEPT
                          !.visited = Seen(hist.visited, e),
                          !.invoked = IF match THEN Append(hist.invoked, e)
                                      ELSE hist.invoked]
    /\ UNCHANGED <<rxvars, codecvars, listvars, pk, heap, callvars, rx_data, e, nchunks>>

\* e = list_next_entry(e)
ScanNext(n) ==
    /\ rxpc = "scan_next"
    /\ Live(e) => n = nxt[e]
    /\ e' = n
    /\ rxpc' = "scan"
    /\ UNCHANGED <<rxvars, codecvars, listvars, pk, heap, callvars, rx_data, nchunks, hist>>

\* wimod_hci_packet_dispatch_completion: if (completion_done(&disp->comp)) return
HDone(d) ==
    /\ rxpc = "h_done"
    /\ Live(e) => (d <=> pk[e].done > 0)
    /\ rxpc' = IF d THEN AfterHandler ELSE "h_len"
    /\ UNCHANGED <<rxvars, codecvars, listvars, pk, heap, callvars, rx_data, e, nchunks, hist>>

\*   disp->payload_len = len - 2, len being the frame's length less 2
HLen ==
    /\ rxpc = "h_len"
    /\ pk' = Store(e, [pk[e] EXCEPT !.payload_len = (rx_len - 2) - 2])
    /\ rxpc' = "h_alloc"
    /\ hist' = IF Live(e) THEN [hist EXCEPT !.nwr[e] = hist.nwr[e] + 1] ELSE hist
    /\ UNCHANGED <<rxvars, codecvars, listvars, heap, callvars, rx_data, e, nchunks>>

\*   disp->payload = kzalloc(...); if (disp->payload) memcpy(..., data + 2, len - 2)
HAlloc(ok) ==
    /\ rxpc = "h_alloc"
    /\ (rx_len - 4 = 0) => ok
    /\ pk' = Store(e, [pk[e] EXCEPT !.payload =
                IF ok THEN Buf(SubSeq(rx_buf, 3, rx_len - 2)) ELSE NullBuf])
    /\ heap' = IF ok /\ rx_len - 4 > 0 THEN heap + 1 ELSE heap
    /\ rxpc' = "h_complete"
    /\ UNCHANGED <<rxvars, codecvars, listvars, callvars, rx_data, e, nchunks, hist>>

\*   complete(&disp->comp); the handler returns and the scan breaks
HComplete ==
    /\ rxpc = "h_complete"
    /\ pk' = Store(e, [pk[e] EXCEPT !.done = pk[e].done + 1])
    /\ rxpc' = AfterHandler
    /\ hist' = IF Live(e) THEN [hist EXCEPT !.ncomp[e] = hist.ncomp[e] + 1] ELSE hist
    /\ UNCHANGED <<rxvars, codecvars, listvars, heap, callvars, rx_data, e, nchunks>>

\* wimod_process_packet has returned: rx_len = 0, and the loop goes on
RxAfter ==
    /\ rxpc = "after"
    /\ RxRun(RxState(<< >>, 0, rx_esc, rx_data))
    /\ e' = HEAD
    /\ hist' = [hist EXCEPT !.invoked = << >>, !.visited = << >>, !.stable = {}]
    /\ UNCHANGED <<codecvars, listvars, pk, heap, callvars, nchunks>>

Next ==
    \/ \E c \in Callers : \E cmd \in CmdsOf(c) : Start(c, cmd)
    \/ \E c \in Callers : AddRead(c)
    \/ \E c \in Callers : AddLink(c)
    \/ \E c \in Callers : AddTail(c)
    \/ \E c \in Callers, k \in 0..MaxWrites, r \in {0} \cup WriteErrors : Send(c, k, r)
    \/ \E c \in Callers : WaitDone(c)
    \/ \E c \in Callers : WaitTimeout(c)
    \/ \E c \in Callers : DelRead(c)
    \/ \E c \in Callers : DelPrev(c)
    \/ \E c \in Callers : DelNext(c)
    \/ \E c \in Callers : Return(c)
    \/ \E data \in RxChunks : RxChunk(data)
    \/ RxProcess
    \/ \E match \in BOOLEAN : ScanCheck(match)
    \/ \E n \in Nodes \cup {NULLP} : ScanNext(n)
    \/ \E d \in BOOLEAN : HDone(d)
    \/ HLen
    \/ \E ok \in BOOLEAN : HAlloc(ok)
    \/ HComplete
    \/ RxAfter

Spec == Init /\ [][Next]_vars

(***************************************************************************)
(* Spec: the state of the dispatcher list.                                 *)
(***************************************************************************)
\* the entries a scan starting now would meet, following next from the head;
\* the walk does not go on through the entry of a call that is not running,
\* and stops after one entry more than there are callers (a cycle)
RECURSIVE Walk(_, _)
Walk(n, k) ==
    IF n \notin Callers \/ k = 0 THEN << >>
    ELSE <<n>> \o (IF Live(n) THEN Walk(nxt[n], k - 1) ELSE << >>)

ListSeq == Walk(nxt[HEAD], Cardinality(Callers) + 1)

Reachable(c) == \E j \in 1..Len(ListSeq) : ListSeq[j] = c

\* c's wimod_hci_add_dispatcher has returned and its
\* wimod_hci_remove_dispatcher has not begun
Registered(c) == pc[c] \in {"send", "wait", "del_read"}

\* c's wimod_hci_remove_dispatcher has returned
Unregistered(c) == pc[c] \in {"ret", "returned", "oops"}

\* the receive path stands before a read or a write of a field of entry e
AccessStates == {"scan", "scan_next", "h_done", "h_len", "h_alloc", "h_complete"}

Index(q, c) == CHOOSE j \in 1..Len(q) : q[j] = c

InSeq(q, c) == \E j \in 1..Len(q) : q[j] = c

\* the frames the chunks of RxChunks carry that are well formed, and the
\* payloads they carry
GoodFrames ==
    { PingRsp(<<DEVMGMT_STATUS_OK>>),
      InfoRsp(<<DEVMGMT_STATUS_OK, 1, 2, 3, 4, 5, 6, 7, 8, 9>>) }

GoodPayloads == { SubSeq(f, 3, Len(f) - 2) : f \in GoodFrames }

\* the frame in the receive buffer
RxFrame == SubSeq(rx_buf, 1, rx_len)

\* a step of the receive path
RxStep == <<rxpc, rx_data, rx_buf, rx_len>>' # <<rxpc, rx_data, rx_buf, rx_len>>

(***************************************************************************)
(* Spec: the claims.                                                       *)
(***************************************************************************)
\* C1: over the lifetime of a waiter, the completion handler writes its
\* payload slot at most once and signals its completion at most once.
C1_AtMostOnce ==
    \A c \in Callers : hist.nwr[c] <= 1 /\ hist.ncomp[c] <= 1

\* C2: the receive path never stands before a read or a write of a field of
\* the waiter of a call that has returned.
C2_NoAccessAfterReturn ==
    \A c \in Callers :
        pc[c] = "returned" => ~(e = c /\ rxpc \in AccessStates)

\* C3: no entry that a scan of the dispatcher list meets belongs to a call that
\* has returned.
C3_NoEntryOfReturnedCall ==
    \A c \in Callers : pc[c] = "returned" => ~Reachable(c)

\* C4: the handler is invoked for at most one entry per frame, that entry is
\* registered under the frame's key, no entry with the frame's key that was
\* registered before it and stays registered during the scan is passed over,
\* and a scan that invokes no handler has passed over no entry with the
\* frame's key that stayed registered during the scan.
C4_FirstMatchOnly ==
    /\ Len(hist.invoked) <= 1
    /\ rxpc = "h_done" =>
           /\ Live(e) /\ KeyMatches(e)
           /\ \A c \in hist.stable :
                  (c # e /\ e \in hist.stable /\ KeyMatches(c)) =>
                      Index(hist.regseq, e) < Index(hist.regseq, c)
    /\ (rxpc = "after" /\ hist.invoked = << >>) =>
           \A c \in hist.stable : ~KeyMatches(c)

\* C7: only a frame of 4 bytes or more whose checksum verifies is scanned
\* against the dispatcher list, a waiter's payload is the payload of such a
\* frame, a waiter is completed only after such a frame has been scanned, and a
\* step of the receive path that discards a frame changes no waiter and leaves
\* the buffer empty or holding the next frame of the chunk.
C7_InvalidNeverDispatched ==
    /\ [](/\ rxpc = "process" => rx_len > 0
          /\ rxpc \in AccessStates \cup {"after"} => RxFrame \in GoodFrames
          /\ \A c \in Callers :
                /\ (pk[c].payload.ok /\ Len(pk[c].payload.data) > 0) =>
                       pk[c].payload.data \in GoodPayloads
                /\ (pk[c].done > 0 \/ hist.ncomp[c] > 0 \/ hist.nwr[c] > 0
                      \/ hist.how[c] = "completed") => hist.valid)
    /\ [][(rxpc = "process" /\ RxStep /\ RxFrame \notin GoodFrames) =>
            /\ pk' = pk /\ heap' = heap /\ e' = e
            /\ hist'.invoked = hist.invoked
            /\ rxpc' \in {"process", "idle"}
            /\ rxpc' = "idle" => rx_len' = 0
            /\ rxpc' = "process" => rx_len' > 0]_vars

\* a ping call is waiting, a 2-byte frame and a ping response with a wrong
\* checksum have been discarded with no frame scanned yet, the waiter is as it
\* was, and the receive path holds the device-info frame that followed them
C7_Witness ==
    /\ hist.disc /\ ~hist.valid
    /\ pc["c1"] = "wait" /\ hist.waited["c1"] = FALSE
    /\ pk["c1"] = NewPacket("ping")
    /\ rxpc = "process"
    /\ RxFrame = InfoRsp(<<DEVMGMT_STATUS_OK, 1, 2, 3, 4, 5, 6, 7, 8, 9>>)

\* C8: an entry whose registration has finished and whose removal has not
\* begun is met by a scan, an entry whose removal has finished is not, and no
\* entry is met twice.
C8_WritersSafe ==
    /\ \A c \in Callers : Registered(c) => Reachable(c)
    /\ \A c \in Callers : Unregistered(c) => ~Reachable(c)
    /\ \A i, j \in 1..Len(ListSeq) : ListSeq[i] = ListSeq[j] => i = j

\* C9: a scan never follows a pointer that is not an entry or the head, never
\* stands at the entry of a call that has returned, does not go round a cycle,
\* and a scan that reaches the end of the list has examined every entry that
\* stayed registered during the scan exactly once.
C9_ScanConsistent ==
    /\ rxpc # "oops"
    /\ rxpc \in AccessStates => (e = HEAD \/ (e \in Callers /\ Live(e)))
    /\ Len(hist.visited) < MaxSeen
    /\ (rxpc = "after" /\ e = HEAD) =>
           \A c \in hist.stable :
               Cardinality({j \in 1..Len(hist.visited) : hist.visited[j] = c}) = 1

\* C10: a call one of whose writes has failed has made no write after it, has
\* not entered the wait, is in or past its wimod_hci_remove_dispatcher, and
\* returns the error of that write.
C10_WriteFailureAborts ==
    \A c \in Callers :
        /\ hist.werr[c] # 0 =>
              /\ hist.werr[c] \in WriteErrors
              /\ ~hist.late[c] /\ ~hist.waited[c]
              /\ pc[c] \in {"del_read", "del_prev", "del_next", "ret"}
              /\ loc[c].ret = hist.werr[c]
              /\ pc[c] = "ret" =>
                    /\ Outcome(c) = hist.werr[c]
                    /\ How(c) = "write"
                    /\ ~InSeq(hist.regseq, c)
        /\ hist.how[c] = "write" =>
              /\ pc[c] = "returned"
              /\ hist.result[c] \in WriteErrors
              /\ ~InSeq(hist.regseq, c)

\* one call has returned the error of a failed write while the other call is
\* still waiting for its response
C10_Witness ==
    /\ hist.how["c1"] = "write" /\ hist.result["c1"] = 0 - ETIMEDOUT
    /\ pc["c2"] = "wait"
    /\ nxt[HEAD] = "c2"

\* C11: the value a call returns when the response deadline has elapsed is
\* never a value a call returns for a failed write or after a completed wait.
C11_TimeoutDistinct ==
    \A c, d \in Callers :
        (hist.how[c] = "timeout" /\ hist.how[d] \in {"write", "completed"}) =>
            hist.result[c] # hist.result[d]

\* c's wait has returned as completed and the call has not returned yet
WaitCompleted(c) ==
    /\ pc[c] \in {"del_read", "del_prev", "del_next", "ret"}
    /\ loc[c].ret = 0
    /\ loc[c].timeout # 0

\* the bytes of frame f without its 2-byte header and its 2 checksum bytes
Body(f) == SubSeq(f, 3, Len(f) - 2)

\* C12: a call whose wait has completed holds a payload buffer whose bytes are
\* those of a valid frame carrying the waiter's key, less the 2-byte header and
\* the 2 checksum bytes, and payload_len is the frame's length less 4.
C12_PayloadIsFrameBody ==
    \A c \in Callers :
        WaitCompleted(c) =>
            \E f \in GoodFrames :
                /\ f[1] = pk[c].dst_id /\ f[2] = pk[c].msg_id
                /\ pk[c].payload_len = Len(f) - 4
                /\ pk[c].payload = Buf(Body(f))

\* a step of c's request call
CallStep(c) ==
    \/ AddRead(c) \/ AddLink(c) \/ AddTail(c)
    \/ \E k \in 0..MaxWrites, r \in {0} \cup WriteErrors : Send(c, k, r)
    \/ WaitDone(c) \/ WaitTimeout(c)
    \/ DelRead(c) \/ DelPrev(c) \/ DelNext(c)
    \/ Return(c)

\* C13: a request call that has begun and has not returned can take a step,
\* whatever the receive path has done, and a call that has returned has
\* returned in exactly one of the outcomes write failure, timeout, completed.
C13_CallTerminates ==
    \A c \in Callers :
        /\ pc[c] \notin {"idle", "returned"} => ENABLED CallStep(c)
        /\ pc[c] = "returned" <=> hist.how[c] \in {"write", "timeout", "completed"}

(***************************************************************************)
(* SpecRx: the receive assembler alone, on streams of any content.         *)
(***************************************************************************)
\* calls of wimod_receive_buf in SpecRx
MaxFeeds == 4

\* a run of n literal bytes
Lit(n) == [j \in 1..n |-> DEVMGMT_ID]

\* the pieces a stream is made of; each call is handed one more piece. The
\* long runs bring the fill length to the capacity of rx_buf and beyond it
RxPieces ==
    { <<SLIP_END>>, <<SLIP_ESC>>, <<SLIP_ESC_END>>, <<DEVMGMT_ID>>,
      <<DEVMGMT_ID, SLIP_ESC, SLIP_ESC_ESC, SLIP_END, DEVMGMT_ID>>,
      Lit(WIMOD_HCI_PACKET_MAX - 1) \o <<SLIP_ESC>>,
      Lit(WIMOD_HCI_PACKET_MAX) \o <<SLIP_END>> }

RxOnlyInit ==
    /\ RxInit
    /\ ConcOff
    /\ cphase = "rx"
    /\ tx = [dst_id |-> 0, msg_id |-> 0, payload |-> << >>]
    /\ keep \in BOOLEAN
    /\ wire = << >>
    /\ pos = 0
    /\ pend = << >>
    /\ ncalls = 0
    /\ emitted = << >>
    /\ last_in = << >>
    /\ last_ret = 0

\* the transport calls wimod_receive_buf with the bytes the last call left
\* unconsumed (when it keeps them) followed by one more piece of the stream
RFeed(piece) ==
    /\ cphase = "rx"
    /\ ncalls < MaxFeeds
    /\ LET input == pend \o piece
           r == wimod_receive_buf(rx_buf, rx_len, rx_esc, input)
       IN  /\ rx_buf' = r.buf
           /\ rx_len' = r.len
           /\ rx_esc' = r.esc
           /\ emitted' = emitted \o r.frames
           /\ pend' = IF keep THEN SubSeq(input, r.ret + 1, Len(input)) ELSE << >>
           /\ last_in' = input
           /\ last_ret' = r.ret
    /\ wire' = wire \o piece
    /\ pos' = pos + Len(piece)
    /\ ncalls' = ncalls + 1
    /\ UNCHANGED <<cphase, tx, keep, concvars>>

RxOnlyNext == \E piece \in RxPieces : RFeed(piece)

SpecRx == RxOnlyInit /\ [][RxOnlyNext]_vars

\* the input of the last call that the call did not report as consumed
LastRest == SubSeq(last_in, last_ret + 1, Len(last_in))

\* C14: the fill length stays within 0 and the capacity of rx_buf and is the
\* number of bytes stored, every frame handed over is no longer than the
\* capacity, the value returned is within 0 and count, and the bytes a call
\* leaves unconsumed are literal bytes with no END or ESC within the room left
\* in the buffer (none of them is looked at when no room is left).
C14_RxLenBounded ==
    cphase = "rx" =>
        /\ rx_len \in 0..WIMOD_HCI_PACKET_MAX
        /\ Len(rx_buf) = rx_len
        /\ \A j \in 1..Len(emitted) : Len(emitted[j]) \in 1..WIMOD_HCI_PACKET_MAX
        /\ last_ret \in 0..Len(last_in)
        /\ LET room == Min(Len(LastRest), WIMOD_HCI_PACKET_MAX - rx_len)
           IN  /\ \A j \in 1..room : LastRest[j] \notin {SLIP_END, SLIP_ESC}
               /\ room > 0 => ~rx_esc

\* the buffer is full and the last call, handed input, consumed none of it
C14_Witness ==
    /\ cphase = "rx"
    /\ rx_len = WIMOD_HCI_PACKET_MAX
    /\ Len(last_in) > 0 /\ last_ret = 0

\* C15: a call of wimod_receive_buf made when the buffer is full returns 0,
\* leaves the buffer, the fill length and the escape flag as they were and
\* hands over no frame, whatever its input; so a full buffer stays full.
C15_FullIsAbsorbing ==
    [][(cphase = "rx" /\ rx_len = WIMOD_HCI_PACKET_MAX) =>
          /\ last_ret' = 0
          /\ rx_len' = rx_len /\ rx_buf' = rx_buf /\ rx_esc' = rx_esc
          /\ emitted' = emitted]_vars

\* the buffer is full after a call whose input began with END
C15_Witness ==
    /\ cphase = "rx"
    /\ rx_len = WIMOD_HCI_PACKET_MAX
    /\ ncalls >= 3
    /\ Len(last_in) > 0 /\ last_in[1] = SLIP_END

\* C16: a call made with the escape pending whose first input byte is neither
\* ESC_END nor ESC_ESC consumes that byte without storing it or completing a
\* frame, clears the escape flag, and treats the rest of its input as a call
\* made with no escape pending does; on a one-byte input it returns 1 and
\* leaves the buffer and the fill length as they were.
C16_UnknownEscapeDropped ==
    [][(/\ cphase = "rx" /\ rx_esc /\ ncalls' = ncalls + 1
        /\ Len(last_in') > 0
        /\ last_in'[1] \notin {SLIP_ESC_END, SLIP_ESC_ESC}) =>
          LET r == wimod_receive_buf(rx_buf, rx_len, FALSE, Tail(last_in'))
          IN  /\ last_ret' = 1 + r.ret
              /\ rx_buf' = r.buf /\ rx_len' = r.len /\ rx_esc' = r.esc
              /\ emitted' = emitted \o r.frames
              /\ Len(last_in') = 1 =>
                    /\ last_ret' = 1
                    /\ rx_buf' = rx_buf /\ rx_len' = rx_len /\ ~rx_esc'
                    /\ emitted' = emitted]_vars

\* an END that followed an ESC has been dropped: the bytes stored before the
\* ESC are still in the buffer and no frame has been handed over
C16_Witness ==
    /\ cphase = "rx"
    /\ ncalls = 3
    /\ wire = <<DEVMGMT_ID, SLIP_ESC, SLIP_END>>
    /\ last_in = <<SLIP_END>> /\ last_ret = 1
    /\ rx_buf = <<DEVMGMT_ID>> /\ rx_len = 1 /\ ~rx_esc
    /\ emitted = << >>

\* C18: the value a call returns is within 0 and count, the call leaves the
\* state and hands over the frames that a call on the consumed bytes alone
\* would, and when the unconsumed bytes are put in front of the next call's
\* input, the frames handed over, the receive state and the bytes left over
\* are those of one call on the whole stream.
C18_ConsumedPrefixDecides ==
    /\ [][(cphase = "rx" /\ ncalls' = ncalls + 1) =>
            LET p == wimod_receive_buf(rx_buf, rx_len, rx_esc,
                                       SubSeq(last_in', 1, last_ret'))
            IN  /\ last_ret' \in 0..Len(last_in')
                /\ p.ret = last_ret'
                /\ p.buf = rx_buf' /\ p.len = rx_len' /\ p.esc = rx_esc'
                /\ emitted' = emitted \o p.frames]_vars
    /\ []((cphase = "rx" /\ keep) =>
            LET w == wimod_receive_buf(<< >>, 0, FALSE, wire)
            IN  /\ emitted = w.frames
                /\ rx_buf = w.buf /\ rx_len = w.len /\ rx_esc = w.esc
                /\ pend = SubSeq(wire, w.ret + 1, Len(wire)))

\* a stream was passed in four calls: a call left its literal byte unconsumed,
\* the byte was passed again, and a frame holding it was handed over
C18_Witness ==
    /\ cphase = "rx" /\ keep
    /\ ncalls = 4
    /\ wire = <<DEVMGMT_ID, SLIP_ESC, SLIP_ESC_END, SLIP_END>>
    /\ emitted = << <<DEVMGMT_ID, SLIP_END>> >>
    /\ pend = << >>

\* C17: a call starts writing its request only after its
\* wimod_hci_add_dispatcher has returned; a completion signalled while the
\* request is being written or before the wait has begun is still there when
\* the wait begins; and a wait times out only if no completion was signalled.
C17_NoMissedWakeup ==
    /\ [](\A c \in Callers :
            /\ pc[c] = "send" => InSeq(hist.regseq, c)
            /\ (pc[c] \in {"send", "wait"} /\ hist.ncomp[c] > 0) => pk[c].done > 0)
    /\ [][\A c \in Callers :
            /\ (pc[c] = "wait" /\ pc'[c] # "wait" /\ hist.ncomp[c] > 0) =>
                  /\ loc'[c].timeout # 0
                  /\ pk'[c].payload_len = pk[c].payload_len
                  /\ pk'[c].payload = pk[c].payload
            /\ (pc[c] = "wait" /\ pc'[c] # "wait" /\ loc'[c].timeout = 0) =>
                  hist.ncomp[c] = 0]_vars

\* a matching frame has been dispatched and the waiter completed while the
\* call is still writing its request
C17_Witness ==
    /\ pc["c1"] = "send"
    /\ hist.ncomp["c1"] = 1 /\ pk["c1"].done = 1
    /\ pk["c1"].payload = Buf(<<DEVMGMT_STATUS_OK>>)
    /\ rxpc = "after" /\ e = "c1"

\* c's payload slot holds a buffer that kfree would release
HoldsBuffer(c) == pk[c].payload.ok /\ Len(pk[c].payload.data) > 0

\* C19: a call that is about to return the timeout error, or the error of a
\* failed write, holds no payload buffer, and its waiter has not been
\* completed.
C19_NoBufferLeftAtReturn ==
    \A c \in Callers :
        (pc[c] = "ret" /\ ~Frees(c)) =>
            /\ ~HoldsBuffer(c)
            /\ hist.ncomp[c] = 0

\* c passed the timeout test and the length test, so its next statement reads
\* packet.payload[0]
ReadsPayload(c) == pc[c] = "ret" /\ Frees(c) /\ ~(pk[c].payload_len < 1)

\* C20: a call that goes on to read packet.payload[0] has a payload slot that
\* holds a buffer of at least payload_len bytes.
C20_ReadsOnlyHeldBuffer ==
    \A c \in Callers :
        ReadsPayload(c) =>
            /\ pk[c].payload.ok
            /\ Len(pk[c].payload.data) >= pk[c].payload_len

=============================================================================
